---- MODULE Spec2Model ----
(***************************************************************************)
(* Model of the crawl engine of ca1zer/crawla: the WorkerPool              *)
(* (src/src/utils/logger.js), the Crawler (src/src/crawler/processor.js),   *)
(* the cache-aware ApiClient (src/src/api/client.js) and the sqlite store   *)
(* (src/src/db/sqlite.js).                                                  *)
(*                                                                         *)
(* JavaScript is single threaded: the code between two awaits is one       *)
(* atomic action.  The scheduler loop of WorkerPool.process is synchronous *)
(* between two sleeps, so while pcProc = "loop" no handler continuation    *)
(* runs.                                                                   *)
(***************************************************************************)
EXTENDS Integers, Sequences, FiniteSets, TLC

VARIABLES
    queue,          \* WorkerPool.queue: sequence of work items
    processing,     \* WorkerPool.processing: a Set of item identities
    maxConcurrent,  \* WorkerPool.maxConcurrent
    pcProc,         \* position of WorkerPool.process: idle, loop, sleep, returned
    handlers,       \* the handler invocations started and not finished, by ticket
    nextTk,         \* next enqueue ticket (history: one ticket per enqueued item)
    dcount,         \* history: how many times each ticket was dispatched
    thrown,         \* history: tickets whose handler threw
    lateAdd,        \* history: tickets enqueued by a handler that was running
    seenUsers,      \* Crawler.seenUsers: the Visited Set
    users,          \* table users of the store, by user_id
    relationships,  \* table following_relationships: pairs <<user_id, following_id>>
    tweets,         \* table tweets: the accounts that have tweets stored
    seedPc,         \* position of each seed of addSeedUsers: todo, cached or
                    \* remote (getUserDetails awaited), done, failed (the catch)
    clears,         \* history: number of Visited Set clears
    restarts,       \* history: number of process restarts over the same store
    enqEpoch,       \* history: enqueues of each account since the last clear
    expandedEpoch,  \* history: the expansions (addNewUsers over a following
                    \* list) since the last clear: the account, whether the
                    \* expansion completed, the accounts in flight with it
    faults,         \* history: number of failed remote calls and store writes
    edgeWrites,     \* history: saveFollowingRelationships calls, by account
    followingFetches, \* history: following lists fetched remotely in this
                    \* run, by account
    stats,          \* Analytics.stats: successfulRequests and failedRequests
    tokens,         \* TokenBucket.tokens, in units of 1 / UnitsPerToken token
    lastRefill,     \* TokenBucket.lastRefill, in ticks
    now,            \* Date.now(), in ticks: one unit of token is refilled per tick
    acq,            \* the callers of consume(): position and timer
    req,            \* the makeRequest calls, by caller: position and attempts
    consumed,       \* history: number of completed consume() calls
    remote,         \* history: number of remote attempts (axios.get calls)
    window          \* history: an observation window of the token bucket

poolVars == <<queue, processing, maxConcurrent, pcProc, handlers, nextTk, dcount,
              thrown, lateAdd>>

storeVars == <<users, relationships, tweets>>

crawlVars == <<seenUsers, users, relationships, tweets, seedPc, clears, restarts,
               enqEpoch, expandedEpoch, faults, edgeWrites, followingFetches,
               stats>>

limiterVars == <<tokens, lastRefill, now, acq, req, consumed, remote, window>>

vars == <<queue, processing, maxConcurrent, pcProc, handlers, nextTk, dcount,
          thrown, lateAdd, seenUsers, users, relationships, tweets, seedPc,
          clears, restarts, enqEpoch, expandedEpoch, faults, edgeWrites,
          followingFetches, stats,
          tokens, lastRefill, now, acq, req, consumed, remote, window>>

----------------------------------------------------------------------------
(* Bounds of the model *)

\* number of distinct item values handed to the generic pool
NumItemVals == 2
\* largest maxConcurrent the generic pool is constructed with
PoolMaxConcurrent == 2
\* items enqueued in the generic pool model
MaxTk == 4
\* items per addItems / process call in the generic pool model
MaxBatch == 2

ItemVals == 1..NumItemVals

\* the non-empty sequences over S of length at most n
RECURSIVE SeqsUpTo(_, _)
SeqsUpTo(S, n) ==
    IF n = 0 THEN {<<>>}
    ELSE LET shorter == SeqsUpTo(S, n - 1)
         IN  shorter \cup {Append(s, x) : s \in {t \in shorter : Len(t) = n - 1}, x \in S}

Batches == SeqsUpTo(ItemVals, MaxBatch)

----------------------------------------------------------------------------
(* TokenBucket (src/src/utils/logger.js) and makeRequest                   *)
(* (src/src/api/twitter.js).  Time is counted in ticks; the bucket refills *)
(* one unit per tick and a token is UnitsPerToken units, so that tokens    *)
(* can be fractional as in the code.                                       *)

\* callers of consume() in the specification of the bucket alone
NumCallers == 2

\* concurrent calls of makeRequest
NumRequesters == 2

MaxTime == 6

\* capacity of the bucket, in tokens
BucketCapacity == 2

UnitsPerToken == 2

\* const maxAttempts = 5
maxAttempts == 5

Callers == 1..NumCallers

Requesters == 1..NumRequesters

Min(a, b) == IF a <= b THEN a ELSE b

\* refill without Math.min(this.capacity, ...)
refillUnclamped(tk, last, t) == tk + (t - last)

\* TokenBucket.refill: the tokens after a refill at time t
refill(tk, last, t) == Min(BucketCapacity * UnitsPerToken, tk + (t - last))

\* timeUntilNextToken of consume, in ticks
timeUntilNextToken(tk) == UnitsPerToken - tk

\* consume() up to its await: refill, then either the debit (wait = 0) or
\* the timer
consume(tk, last, t) ==
    LET t1 == refill(tk, last, t)
    IN  IF t1 < UnitsPerToken
        THEN [tokens |-> t1, lastRefill |-> t, wait |-> timeUntilNextToken(t1)]
        ELSE [tokens |-> t1 - UnitsPerToken, lastRefill |-> t, wait |-> 0]

\* consume() after its await: refill and debit
consumeResumed(tk, last, t) ==
    [tokens |-> refill(tk, last, t) - UnitsPerToken, lastRefill |-> t, wait |-> 0]

\* the bucket after a step of consume
Bucket(b) ==
    /\ tokens' = b.tokens
    /\ lastRefill' = b.lastRefill

\* a caller that has not called makeRequest
IdleReq ==
    [pc |-> "idle", attempts |-> 0, tries |-> 0, wakeAt |-> 0,
     lastErr |-> "none", surfaced |-> "none"]

\* new TokenBucket(refillRate, capacity), no caller
LimiterIdle ==
    /\ tokens = BucketCapacity * UnitsPerToken
    /\ lastRefill = 0
    /\ now = 0
    /\ acq = [c \in Callers |-> [pc |-> "idle", wakeAt |-> 0]]
    /\ req = [c \in Requesters |-> IdleReq]
    /\ consumed = 0
    /\ remote = 0
    /\ window = [start |-> 0, consumed |-> 0, backlog |-> FALSE]

\* new Analytics(): the request counters of stats
NewStats == [successfulRequests |-> 0, failedRequests |-> 0]

\* Analytics.recordSuccess
recordSuccess(st) == [st EXCEPT !.successfulRequests = @ + 1]

\* Analytics.recordFailure
recordFailure(st) == [st EXCEPT !.failedRequests = @ + 1]

\* the variables of the other components
OthersIdle ==
    /\ queue = << >>
    /\ processing = {}
    /\ maxConcurrent = 1
    /\ pcProc = "idle"
    /\ handlers = << >>
    /\ nextTk = 1
    /\ dcount = << >>
    /\ thrown = {}
    /\ lateAdd = {}
    /\ seenUsers = {}
    /\ users = << >>
    /\ relationships = {}
    /\ tweets = {}
    /\ seedPc = << >>
    /\ clears = 0
    /\ restarts = 0
    /\ enqEpoch = << >>
    /\ expandedEpoch = {}
    /\ faults = 0
    /\ edgeWrites = << >>
    /\ followingFetches = << >>
    /\ stats = NewStats

\* time passes
Tick ==
    /\ now < MaxTime
    /\ now' = now + 1
    /\ UNCHANGED <<tokens, lastRefill, acq, req, consumed, remote, window>>
    /\ UNCHANGED <<poolVars, crawlVars>>

(* The bucket with concurrent callers of consume *)

\* some caller is suspended in the setTimeout of consume
Backlog(a) == \E c \in Callers : a[c].pc = "waiting"

\* the observation window after a step that completed k consume() calls
Observe(a, k) ==
    window' = [start |-> window.start,
               consumed |-> window.consumed + k,
               backlog |-> window.backlog \/ Backlog(a)]

\* a caller calls consume()
Acquire(c) ==
    /\ acq[c].pc = "idle"
    /\ LET b == consume(tokens, lastRefill, now)
       IN  /\ Bucket(b)
           /\ acq' = [acq EXCEPT ![c] =
                        IF b.wait > 0
                        THEN [pc |-> "waiting", wakeAt |-> now + b.wait]
                        ELSE [pc |-> "idle", wakeAt |-> 0]]
           /\ Observe(acq', IF b.wait > 0 THEN 0 ELSE 1)
    /\ UNCHANGED <<now, req, consumed, remote>>
    /\ UNCHANGED <<poolVars, crawlVars>>

\* the timer of consume fires, not before it is due, and consume completes
AcquireResumes(c) ==
    /\ acq[c].pc = "waiting"
    /\ now >= acq[c].wakeAt
    /\ Bucket(consumeResumed(tokens, lastRefill, now))
    /\ acq' = [acq EXCEPT ![c] = [pc |-> "idle", wakeAt |-> 0]]
    /\ Observe(acq', 1)
    /\ UNCHANGED <<now, req, consumed, remote>>
    /\ UNCHANGED <<poolVars, crawlVars>>

\* an observer starts a new window
WindowStart ==
    /\ window' = [start |-> now, consumed |-> 0, backlog |-> Backlog(acq)]
    /\ window' # window
    /\ UNCHANGED <<tokens, lastRefill, now, acq, req, consumed, remote>>
    /\ UNCHANGED <<poolVars, crawlVars>>

BucketInit == LimiterIdle /\ OthersIdle

BucketNext ==
    \/ \E c \in Callers : Acquire(c)
    \/ \E c \in Callers : AcquireResumes(c)
    \/ Tick
    \/ WindowStart

SpecBucket == BucketInit /\ [][BucketNext]_vars

(* makeRequest *)

\* the try block of makeRequest without the rate limiter
tryBlockUnlimited == <<"get">>

\* the try block of makeRequest: await consume(), then await axios.get
tryBlock == <<"consume", "get">>

\* axios.get is called by requester c after k completed consume() calls
Get(c, r, k) ==
    /\ req' = [req EXCEPT ![c] = [r EXCEPT !.pc = "request", !.tries = @ + 1]]
    /\ remote' = remote + 1
    /\ consumed' = consumed + k

\* while (attempts < maxAttempts)
LoopContinues(attempts) == attempts < maxAttempts

\* one turn of the while loop of makeRequest up to its first await, or the
\* throw new Error("Max retry attempts reached") after the loop
LoopTurn(c, r) ==
    IF LoopContinues(r.attempts)
    THEN IF Head(tryBlock) = "consume"
         THEN LET b == consume(tokens, lastRefill, now)
              IN  /\ Bucket(b)
                  /\ IF b.wait > 0
                     THEN /\ req' = [req EXCEPT ![c] =
                                       [r EXCEPT !.pc = "waiting",
                                                 !.wakeAt = now + b.wait]]
                          /\ UNCHANGED <<consumed, remote>>
                     ELSE Get(c, r, 1)
         ELSE Get(c, r, 0) /\ UNCHANGED <<tokens, lastRefill>>
    ELSE /\ req' = [req EXCEPT ![c] = [r EXCEPT !.pc = "threw", !.surfaced = "generic"]]
         /\ UNCHANGED <<tokens, lastRefill, consumed, remote>>

\* makeRequest(url, params) is called
MakeRequest(c) ==
    /\ req[c].pc \in {"idle", "returned", "threw"}
    /\ LoopTurn(c, IdleReq)
    /\ UNCHANGED <<now, acq, window>>
    /\ UNCHANGED <<poolVars, crawlVars>>

\* the timer of consume fires: refill, debit, and axios.get is called
TimerFires(c) ==
    /\ req[c].pc = "waiting"
    /\ now >= req[c].wakeAt
    /\ Bucket(consumeResumed(tokens, lastRefill, now))
    /\ Get(c, req[c], 1)
    /\ UNCHANGED <<now, acq, window>>
    /\ UNCHANGED <<poolVars, crawlVars>>

\* the catch block without if (attempts === maxAttempts) throw error
catchWithoutThrow(r, kind) ==
    [r EXCEPT !.attempts = r.attempts + 1, !.lastErr = kind, !.pc = "sleep"]

\* the catch block of makeRequest for an error of the given kind
catch(r, kind) ==
    LET n == r.attempts + 1
    IN  IF kind = "429"
        THEN [r EXCEPT !.attempts = n, !.lastErr = kind, !.pc = "sleep"]
        ELSE IF n = maxAttempts
             THEN [r EXCEPT !.attempts = n, !.lastErr = kind,
                            !.pc = "threw", !.surfaced = kind]
             ELSE [r EXCEPT !.attempts = n, !.lastErr = kind, !.pc = "sleep"]

\* axios.get settles: the response, a 429 or another error
Response(c) ==
    /\ req[c].pc = "request"
    /\ \E outcome \in {"ok", "429", "error"} :
         req' = [req EXCEPT ![c] =
                   IF outcome = "ok" THEN [req[c] EXCEPT !.pc = "returned"]
                   ELSE catch(req[c], outcome)]
    /\ UNCHANGED <<tokens, lastRefill, now, acq, consumed, remote, window>>
    /\ UNCHANGED <<poolVars, crawlVars>>

\* the backoff sleep ends and the loop takes its next turn
SleepEnds(c) ==
    /\ req[c].pc = "sleep"
    /\ LoopTurn(c, req[c])
    /\ UNCHANGED <<now, acq, window>>
    /\ UNCHANGED <<poolVars, crawlVars>>

RequestInit == LimiterIdle /\ OthersIdle

RequestNext ==
    \/ \E c \in Requesters : MakeRequest(c)
    \/ \E c \in Requesters : TimerFires(c)
    \/ \E c \in Requesters : Response(c)
    \/ \E c \in Requesters : SleepEnds(c)
    \/ Tick

SpecRequest == RequestInit /\ [][RequestNext]_vars

\* C11: for every interleaving of simultaneous consume callers the token
\* count stays within [0, capacity]: it never exceeds the capacity and it
\* is never negative after a consume completes.
C11_TokensWithinBounds ==
    /\ tokens <= BucketCapacity * UnitsPerToken
    /\ tokens >= 0

\* C12: over any window of T ticks with no backlog (no caller suspended in
\* consume at its start or during it) the number of completed consume()
\* calls is at most capacity + refillRate * T.
C12_WindowBound ==
    ~window.backlog =>
        window.consumed * UnitsPerToken
            <= BucketCapacity * UnitsPerToken + (now - window.start)

\* a window without backlog that started after time 0 and in which more
\* than the capacity was consumed
C12_Witness ==
    /\ ~window.backlog
    /\ window.start > 0
    /\ window.consumed > BucketCapacity

\* C19: every remote attempt of makeRequest, the first and each retry, is
\* preceded by one completed consume(): the number of remote attempts never
\* exceeds the number of completed consume() calls.
C19_AttemptsBehindLimiter == remote <= consumed

\* a retry has been sent
C19_Witness ==
    \E c \in Requesters : req[c].pc = "request" /\ req[c].attempts > 0

\* C20 as claimed: at most maxAttempts remote attempts per call, and when
\* the budget is exhausted the call fails with the error of the final
\* attempt.
C20_SurfacesFinalError ==
    \A c \in Requesters :
        /\ req[c].tries <= maxAttempts
        /\ req[c].pc = "threw" =>
             (req[c].attempts = maxAttempts /\ req[c].surfaced = req[c].lastErr)

\* C20 as amended: at most maxAttempts remote attempts per call; when the
\* final attempt fails otherwise than with 429 the call fails with that
\* error, when it fails with 429 the call fails with the error "Max retry
\* attempts reached".
C20_BudgetAmended ==
    \A c \in Requesters :
        /\ req[c].tries <= maxAttempts
        /\ req[c].pc = "threw" =>
             /\ req[c].attempts = maxAttempts
             /\ req[c].tries = maxAttempts
             /\ req[c].surfaced =
                  IF req[c].lastErr = "429" THEN "generic" ELSE req[c].lastErr

\* a call has failed after a final attempt that was rate limited
C20_Witness ==
    \E c \in Requesters :
        /\ req[c].pc = "threw"
        /\ req[c].surfaced = "generic"

----------------------------------------------------------------------------
(* WorkerPool *)

\* an item of the generic pool: id is the JavaScript identity of the value,
\* which is what Set.add / Set.delete compare; tk is the enqueue ticket.
PoolItem(v, tk) == [id |-> v, tk |-> tk, user_id |-> 0, depth |-> 0]

RECURSIVE PoolItems(_, _)
PoolItems(vals, tk) ==
    IF vals = <<>> THEN <<>>
    ELSE <<PoolItem(Head(vals), tk)>> \o PoolItems(Tail(vals), tk + 1)

\* the condition of the outer while of process, followed by the position it
\* leads to: the inner dispatch loop, or the return.
OuterCheck(q, p) ==
    IF Len(q) > 0 \/ Cardinality(p) > 0 THEN "loop" ELSE "returned"

\* this.queue.unshift(...items)
addItemsInFront(q, items) == items \o q

\* this.queue.push(...items)
addItems(q, items) == q \o items

\* the number of handler invocations started and not finished
Running == Cardinality(DOMAIN handlers)

\* the tickets handed out so far
Tickets == 1..(nextTk - 1)

\* the condition of the inner while of process
CanDispatch ==
    /\ Cardinality(processing) < maxConcurrent
    /\ Len(queue) > 0

\* one iteration of the inner while: shift, processing.add; the handler
\* invocation itself is started by the caller of this definition.
DispatchCore ==
    /\ pcProc = "loop"
    /\ CanDispatch
    /\ queue' = Tail(queue)
    /\ processing' = processing \cup {Head(queue).id}
    /\ dcount' = [dcount EXCEPT ![Head(queue).tk] = @ + 1]
    /\ UNCHANGED <<maxConcurrent, pcProc, nextTk>>

\* the inner while ends: await sleep(100)
LoopPause ==
    /\ pcProc = "loop"
    /\ ~CanDispatch
    /\ pcProc' = "sleep"
    /\ UNCHANGED <<queue, processing, maxConcurrent, handlers, nextTk, dcount,
                   thrown, lateAdd>>
    /\ UNCHANGED crawlVars
    /\ UNCHANGED limiterVars

\* sleep(100) is over: the outer while condition is evaluated again
Wake ==
    /\ pcProc = "sleep"
    /\ pcProc' = OuterCheck(queue, processing)
    /\ UNCHANGED <<queue, processing, maxConcurrent, handlers, nextTk, dcount,
                   thrown, lateAdd>>
    /\ UNCHANGED crawlVars
    /\ UNCHANGED limiterVars

\* the end of a handler without finally { this.processing.delete(item) }
FinishCoreKeepsItem(tk) ==
    /\ tk \in DOMAIN handlers
    /\ pcProc # "loop"
    /\ handlers' = [t \in DOMAIN handlers \ {tk} |-> handlers[t]]
    /\ processing' = processing

\* finally { this.processing.delete(item) }
FinishCore(tk) ==
    /\ tk \in DOMAIN handlers
    /\ pcProc # "loop"
    /\ handlers' = [t \in DOMAIN handlers \ {tk} |-> handlers[t]]
    /\ processing' = processing \ {handlers[tk].item.id}

----------------------------------------------------------------------------
(* The generic pool with an abstract handler *)

PoolHandler(item) == [item |-> item, pc |-> "run"]

PoolInit ==
    /\ queue = <<>>
    /\ processing = {}
    /\ maxConcurrent \in 1..PoolMaxConcurrent
    /\ pcProc = "idle"
    /\ handlers = << >>
    /\ nextTk = 1
    /\ dcount = [t \in 1..MaxTk |-> 0]
    /\ thrown = {}
    /\ lateAdd = {}
    /\ seenUsers = {}
    /\ users = << >>
    /\ relationships = {}
    /\ tweets = {}
    /\ seedPc = << >>
    /\ clears = 0
    /\ restarts = 0
    /\ enqEpoch = << >>
    /\ expandedEpoch = {}
    /\ faults = 0
    /\ edgeWrites = << >>
    /\ followingFetches = << >>
    /\ stats = NewStats
    /\ LimiterIdle

\* addItems called by the owner of the pool, before process or while it sleeps
PoolAddItems ==
    /\ pcProc \in {"idle", "sleep"}
    /\ \E vals \in Batches :
        /\ vals # <<>>
        /\ nextTk + Len(vals) - 1 <= MaxTk
        /\ queue' = addItems(queue, PoolItems(vals, nextTk))
        /\ nextTk' = nextTk + Len(vals)
    /\ UNCHANGED <<processing, maxConcurrent, pcProc, handlers, dcount, thrown,
                   lateAdd>>
    /\ UNCHANGED crawlVars
    /\ UNCHANGED limiterVars

\* process(items, processor) is called
PoolProcess ==
    /\ pcProc = "idle"
    /\ \E vals \in Batches :
        /\ nextTk + Len(vals) - 1 <= MaxTk
        /\ queue' = addItems(queue, PoolItems(vals, nextTk))
        /\ nextTk' = nextTk + Len(vals)
        /\ pcProc' = OuterCheck(queue', processing)
    /\ UNCHANGED <<processing, maxConcurrent, handlers, dcount, thrown, lateAdd>>
    /\ UNCHANGED crawlVars
    /\ UNCHANGED limiterVars

PoolDispatch ==
    /\ DispatchCore
    /\ handlers' = (Head(queue).tk :> PoolHandler(Head(queue))) @@ handlers
    /\ UNCHANGED <<thrown, lateAdd>>
    /\ UNCHANGED crawlVars
    /\ UNCHANGED limiterVars

\* a running handler calls addItems
PoolHandlerAddItems ==
    /\ pcProc # "loop"
    /\ \E tk \in DOMAIN handlers, vals \in Batches :
        /\ vals # <<>>
        /\ nextTk + Len(vals) - 1 <= MaxTk
        /\ queue' = addItems(queue, PoolItems(vals, nextTk))
        /\ nextTk' = nextTk + Len(vals)
        /\ lateAdd' = lateAdd \cup (nextTk..(nextTk + Len(vals) - 1))
    /\ UNCHANGED <<processing, maxConcurrent, pcProc, handlers, dcount, thrown>>
    /\ UNCHANGED crawlVars
    /\ UNCHANGED limiterVars

\* await processor(item) resolves
PoolHandlerReturns(tk) ==
    /\ FinishCore(tk)
    /\ UNCHANGED <<queue, maxConcurrent, pcProc, nextTk, dcount, thrown, lateAdd>>
    /\ UNCHANGED crawlVars
    /\ UNCHANGED limiterVars

\* processor(item) throws or rejects: catch, logger.error, finally
PoolHandlerThrows(tk) ==
    /\ FinishCore(tk)
    /\ thrown' = thrown \cup {tk}
    /\ UNCHANGED <<queue, maxConcurrent, pcProc, nextTk, dcount, lateAdd>>
    /\ UNCHANGED crawlVars
    /\ UNCHANGED limiterVars

PoolNext ==
    \/ PoolAddItems
    \/ PoolProcess
    \/ PoolDispatch
    \/ LoopPause
    \/ Wake
    \/ PoolHandlerAddItems
    \/ \E tk \in 1..MaxTk : PoolHandlerReturns(tk)
    \/ \E tk \in 1..MaxTk : PoolHandlerThrows(tk)

SpecPool == PoolInit /\ [][PoolNext]_vars

\* The scheduler loop runs to its sleep and its timer fires (weak fairness);
\* every handler invocation eventually finishes: its continuation is enabled
\* each time the scheduler loop sleeps, hence strong fairness.
FairSpecPool ==
    /\ SpecPool
    /\ WF_vars(PoolDispatch)
    /\ WF_vars(LoopPause)
    /\ WF_vars(Wake)
    /\ \A tk \in 1..MaxTk : SF_vars(PoolHandlerReturns(tk) \/ PoolHandlerThrows(tk))

----------------------------------------------------------------------------
(* Claims about the generic pool *)

\* C1: for every interleaving of process, addItems and handler completions,
\* the number of handler invocations started and not yet finished never
\* exceeds maxConcurrent.
C1_ConcurrencyBound == Running <= maxConcurrent

\* C2: process returns only in a state where the pending queue is empty and
\* no handler invocation is still running.
C2_ReturnsOnlyWhenDrained ==
    [][(pcProc # "returned" /\ pcProc' = "returned")
        => (queue' = <<>> /\ DOMAIN handlers' = {})]_vars

\* C3: if every handler invocation eventually finishes, every item placed in
\* the queue (passed to process, added before process starts, or added by a
\* running handler) is eventually dispatched, exactly once, and process
\* eventually returns.
C3_EveryItemDispatchedOnce ==
    /\ \A t \in 1..MaxTk :
        [](((t \in Tickets /\ pcProc # "idle") \/ t \in lateAdd) => <>(dcount[t] = 1))
    /\ [](\A t \in 1..MaxTk : dcount[t] <= 1)
    /\ [](pcProc # "idle" => <>(pcProc = "returned"))

----------------------------------------------------------------------------
(* The remote data provider, the configuration and the seeds *)

\* the following list the provider returns for each account, by user_id
FollowingList == << <<3>>, <<3>>, <<1, 4>>, << >> >>

\* the follower_count the provider returns for each account
FollowerCounts == <<2, 3, 2, 1>>

\* the number of tweets the provider returns for each account
TweetCounts == <<1, 1, 0, 1>>

Accounts == DOMAIN FollowingList

\* initUsers.json
Seeds == <<1, 2, 1>>

\* config.minFollowers (MIN_FOLLOWERS), scaled
minFollowers == 2
\* config.maxDepth (MAX_DEPTH)
maxDepth == 1
\* config.refreshHours: Infinity
refreshHours == [infinite |-> TRUE, hours |-> 0]
\* new WorkerPool(5)
CrawlerConcurrency == 5

\* Visited Set clears in one run
MaxClears == 1
\* restarts of the process over the same store
MaxRestarts == 1
\* hours a stored record can be old when it is read
MaxHours == 1
\* remote calls and store writes that fail in one behaviour
MaxFaults == 1
\* clears, restarts and failures together in one behaviour
MaxDisturbances == 1

----------------------------------------------------------------------------
(* JavaScript values and the store *)

\* user.f used as a condition: an absent field is undefined, 0 is falsy
Truthy(r, f) == f \in DOMAIN r /\ r[f] # 0

\* x ? 1 : 0
ToSqlBool(r, f) == IF Truthy(r, f) THEN 1 ELSE 0

\* { ...r, ...extra }
Spread(r, extra) == extra @@ r

\* the record twitter.getUserDetails / twitter.getFollowing return for u
ApiUser(u) == [user_id |-> u, follower_count |-> FollowerCounts[u]]

\* db.getUser: the row, or null (the empty sequence)
getUser(tbl, u) == IF u \in DOMAIN tbl THEN <<tbl[u]>> ELSE << >>

\* db.userExists
userExists(tbl, u) == u \in DOMAIN tbl

\* the comparison with an Infinity that was lost (JSON turns it into null)
GreaterThanFinite(x, y) == x > y.hours

\* x > y where y may be Infinity
GreaterThan(x, y) == ~y.infinite /\ x > y.hours

\* db.isUserStale, elapsed being the hours since user.last_updated
isUserStale(tbl, u, hours, elapsed) ==
    IF getUser(tbl, u) = << >> THEN TRUE ELSE GreaterThan(elapsed, hours)

\* db.saveUser: INSERT OR REPLACE of the whole row
saveUser(tbl, user) ==
    LET row == [user_id |-> user.user_id,
                follower_count |-> user.follower_count,
                last_updated |-> user.last_updated,
                followers_crawled |-> ToSqlBool(user, "followers_crawled"),
                bfs_depth |-> user.bfs_depth,
                is_in_niche |-> ToSqlBool(user, "is_in_niche"),
                checked_in_niche |-> ToSqlBool(user, "checked_in_niche")]
    IN  [v \in DOMAIN tbl \cup {user.user_id} |->
            IF v = user.user_id THEN row ELSE tbl[v]]

\* db.markFollowersCrawled: UPDATE ... WHERE user_id = u
markFollowersCrawled(tbl, u) ==
    [v \in DOMAIN tbl |->
        IF v = u THEN [tbl[v] EXCEPT !.followers_crawled = 1] ELSE tbl[v]]

\* db.getFollowingIds, in primary key order
RECURSIVE SortedSeq(_)
SortedSeq(S) ==
    IF S = {} THEN << >>
    ELSE LET m == CHOOSE x \in S : \A y \in S : x <= y
         IN  <<m>> \o SortedSeq(S \ {m})

getFollowingIds(rel, u) == SortedSeq({e[2] : e \in {r \in rel : r[1] = u}})

\* the foreign keys of following_relationships hold for the batch
RelationshipsAccepted(tbl, u, following) ==
    /\ userExists(tbl, u)
    /\ \A i \in 1..Len(following) : userExists(tbl, following[i].user_id)

\* processUserAndFollowing without the call of saveFollowingRelationships
saveFollowingRelationshipsSkipped(rel, u, following) == rel

\* db.saveFollowingRelationships: one transaction
saveFollowingRelationships(rel, u, following) ==
    rel \cup {<<u, following[i].user_id>> : i \in 1..Len(following)}

----------------------------------------------------------------------------
(* Crawler *)

\* the filter of addNewUsers: the users not in seenUsers, each id once
RECURSIVE FilterNew(_, _)
FilterNew(list, seen) ==
    IF list = << >> THEN << >>
    ELSE IF Head(list).user_id \in seen
         THEN FilterNew(Tail(list), seen)
         ELSE <<Head(list)>> \o FilterNew(Tail(list), seen \cup {Head(list).user_id})

\* the userData addNewUsers saves for a new user
NewUserData(user, depth) ==
    Spread(user, [user_id |-> user.user_id, last_updated |-> 1,
                  followers_crawled |-> 0, bfs_depth |-> depth,
                  is_in_niche |-> 0, checked_in_niche |-> 0])

\* the forEach of addNewUsers over the first n new items: users that carry
\* last_updated are skipped, the others are saved
RECURSIVE SaveNew(_, _, _, _)
SaveNew(tbl, newItems, depth, n) ==
    IF n = 0 THEN tbl
    ELSE LET before == SaveNew(tbl, newItems, depth, n - 1)
             user == newItems[n]
         IN  IF Truthy(user, "last_updated") THEN before
             ELSE saveUser(before, NewUserData(user, depth))

\* the new items whose save can throw
Saved(newItems) ==
    {i \in 1..Len(newItems) : ~Truthy(newItems[i], "last_updated")}

\* addNewUsers(list, depth); failAt = 0: no db.saveUser throws; failAt = i:
\* the save of the i-th new item throws.  The result is the Visited Set, the
\* users table, the items handed to workerPool.addItems and whether it threw.
addNewUsers(seen, tbl, list, depth, failAt) ==
    LET newItems == FilterNew(list, seen)
        seen2 == seen \cup {list[i].user_id : i \in 1..Len(list)}
    IN  IF failAt = 0
        THEN [seen |-> seen2, users |-> SaveNew(tbl, newItems, depth, Len(newItems)),
              items |-> [i \in 1..Len(newItems) |->
                            [user_id |-> newItems[i].user_id, depth |-> depth]],
              threw |-> FALSE]
        ELSE [seen |-> seen2, users |-> SaveNew(tbl, newItems, depth, failAt - 1),
              items |-> << >>, threw |-> TRUE]

\* the saves of addNewUsers(list, depth) that can throw, and 0 for none
FailPoints(seen, list) == {0} \cup Saved(FilterNew(list, seen))

\* the work items addNewUsers builds are fresh objects: their identity in
\* the in-flight Set is their ticket
CrawlItems(items, tk) ==
    [i \in 1..Len(items) |->
        [id |-> tk + i - 1, tk |-> tk + i - 1,
         user_id |-> items[i].user_id, depth |-> items[i].depth]]

\* the effect of one addNewUsers call on the Visited Set and the pool
Enqueue(r) ==
    /\ seenUsers' = r.seen
    /\ queue' = addItems(queue, CrawlItems(r.items, nextTk))
    /\ nextTk' = nextTk + Len(r.items)
    /\ dcount' = [t \in DOMAIN dcount \cup (nextTk..(nextTk + Len(r.items) - 1)) |->
                    IF t \in DOMAIN dcount THEN dcount[t] ELSE 0]
    /\ enqEpoch' = [a \in Accounts |->
                      enqEpoch[a] + Cardinality({i \in 1..Len(r.items) :
                                                    r.items[i].user_id = a})]

\* a remote call or a store write fails (failed = TRUE) or succeeds
Fault(failed) ==
    /\ failed => /\ faults < MaxFaults
                 /\ clears + restarts + faults < MaxDisturbances
    /\ faults' = IF failed THEN faults + 1 ELSE faults

\* shouldAddUsersFollowing with > for >=
shouldAddUsersFollowingStrict(user, depth) ==
    /\ user.follower_count > minFollowers
    /\ depth <= maxDepth

\* shouldAddUsersFollowing
shouldAddUsersFollowing(user, depth) ==
    /\ user.follower_count >= minFollowers
    /\ depth <= maxDepth

CrawlInit ==
    /\ queue = << >>
    /\ processing = {}
    /\ maxConcurrent = CrawlerConcurrency
    /\ pcProc = "idle"
    /\ handlers = << >>
    /\ nextTk = 1
    /\ dcount = << >>
    /\ thrown = {}
    /\ lateAdd = {}
    /\ seenUsers = {}
    /\ users = << >>
    /\ relationships = {}
    /\ tweets = {}
    /\ seedPc = [i \in DOMAIN Seeds |-> "todo"]
    /\ clears = 0
    /\ restarts = 0
    /\ enqEpoch = [a \in Accounts |-> 0]
    /\ expandedEpoch = {}
    /\ faults = 0
    /\ edgeWrites = [a \in Accounts |-> 0]
    /\ followingFetches = [a \in Accounts |-> 0]
    /\ stats = NewStats
    /\ LimiterIdle

\* the cache test of getUserDetails without the negation of isUserStale
DetailsCachedWhenStale(tbl, u, elapsed) ==
    /\ getUser(tbl, u) # << >>
    /\ isUserStale(tbl, u, refreshHours, elapsed)

\* ApiClient.getUserDetails up to its first await: the stored row is used
\* when there is one and it is not stale
DetailsCached(tbl, u, elapsed) ==
    /\ getUser(tbl, u) # << >>
    /\ ~isUserStale(tbl, u, refreshHours, elapsed)

\* addSeedUsers: the batch of getUserDetails calls is started
SeedStart ==
    /\ pcProc = "idle"
    /\ \A i \in DOMAIN seedPc : seedPc[i] = "todo"
    /\ \E elapsed \in 0..MaxHours :
        seedPc' = [i \in DOMAIN seedPc |->
                      IF DetailsCached(users, Seeds[i], elapsed)
                      THEN "cached" ELSE "remote"]
    /\ UNCHANGED poolVars
    /\ UNCHANGED <<seenUsers, users, relationships, tweets, clears, restarts,
                   enqEpoch, expandedEpoch, faults>>
    /\ UNCHANGED limiterVars
    /\ UNCHANGED <<edgeWrites, followingFetches, stats>>

\* addSeedUsers: getUserDetails of seed i resolves or rejects; addNewUsers
SeedResolved(i) ==
    /\ seedPc[i] \in {"cached", "remote"}
    /\ \E ok \in BOOLEAN :
        /\ seedPc[i] = "cached" => ok
        /\ seedPc' = [seedPc EXCEPT ![i] = IF ok THEN "done" ELSE "failed"]
        /\ IF ~ok
           THEN /\ Fault(TRUE)
                /\ UNCHANGED <<seenUsers, users, queue, nextTk, dcount, enqEpoch>>
           ELSE LET user == IF seedPc[i] = "cached" THEN users[Seeds[i]]
                            ELSE ApiUser(Seeds[i])
                IN  \E failAt \in FailPoints(seenUsers, <<user>>) :
                      LET r == addNewUsers(seenUsers, users, <<user>>, 0, failAt)
                      IN  /\ Fault(r.threw)
                          /\ Enqueue(r)
                          /\ users' = r.users
    /\ UNCHANGED <<processing, maxConcurrent, pcProc, handlers, thrown, lateAdd>>
    /\ UNCHANGED <<relationships, tweets, clears, restarts, expandedEpoch>>
    /\ UNCHANGED limiterVars
    /\ UNCHANGED <<edgeWrites, followingFetches, stats>>

\* Crawler.start: workerPool.process([], processUserAndFollowing)
StartCrawl ==
    /\ pcProc = "idle"
    /\ \A i \in DOMAIN seedPc : seedPc[i] \in {"done", "failed"}
    /\ pcProc' = OuterCheck(queue, processing)
    /\ UNCHANGED <<queue, processing, maxConcurrent, handlers, nextTk, dcount,
                   thrown, lateAdd>>
    /\ UNCHANGED crawlVars
    /\ UNCHANGED limiterVars

\* A handler is started by the scheduler loop and runs to its first await:
\* cleanupSeenUsers, then processUser starts getUserDetails and getUserTweets,
\* which read the store before they await anything.
CrawlDispatch ==
    /\ DispatchCore
    /\ LET item == Head(queue)
           u == item.user_id
       IN  \E clear \in BOOLEAN, elapsed \in 0..MaxHours :
             /\ clear => /\ clears < MaxClears
                         /\ clears + restarts + faults < MaxDisturbances
             /\ seenUsers' = IF clear THEN {} ELSE seenUsers
             /\ clears' = IF clear THEN clears + 1 ELSE clears
             /\ enqEpoch' = IF clear THEN [a \in Accounts |-> 0] ELSE enqEpoch
             /\ expandedEpoch' = IF clear THEN {} ELSE expandedEpoch
             /\ handlers' =
                  (item.tk :>
                     [item |-> item, pc |-> "fetch",
                      user |-> IF DetailsCached(users, u, elapsed)
                               THEN getUser(users, u) ELSE << >>,
                      detailsRemote |-> ~DetailsCached(users, u, elapsed),
                      tweetsRemote |-> u \notin tweets,
                      hasTweets |-> u \in tweets,
                      wasClassified |-> /\ userExists(users, u)
                                        /\ Truthy(users[u], "checked_in_niche"),
                      invoked |-> FALSE,
                      classifier |-> "none",
                      fromCache |-> FALSE]) @@ handlers
    /\ UNCHANGED <<thrown, lateAdd, users, relationships, tweets, seedPc, restarts,
                   faults>>
    /\ UNCHANGED limiterVars
    /\ UNCHANGED <<edgeWrites, followingFetches, stats>>

\* the handler returns: analytics, then finally { processing.delete(item) }
Finish(tk) ==
    /\ FinishCore(tk)
    /\ UNCHANGED <<maxConcurrent, pcProc, thrown, lateAdd>>

\* processUser: Promise.all([getUserDetails, getUserTweets]) settles
CrawlFetched(tk) ==
    /\ tk \in DOMAIN handlers
    /\ pcProc # "loop"
    /\ handlers[tk].pc = "fetch"
    /\ LET h == handlers[tk]
           u == h.item.user_id
       IN  \E detailsOk \in BOOLEAN, tweetsOk \in BOOLEAN :
             /\ ~h.detailsRemote => detailsOk
             /\ ~h.tweetsRemote => tweetsOk
             /\ Fault(~(detailsOk /\ tweetsOk))
             /\ IF ~(detailsOk /\ tweetsOk)
                THEN \* catch: return null
                     handlers' = [handlers EXCEPT ![tk].pc = "gate", ![tk].user = << >>]
                ELSE LET user == IF h.detailsRemote THEN ApiUser(u) ELSE h.user[1]
                     IN  handlers' =
                           [handlers EXCEPT
                              ![tk].pc = IF Truthy(user, "checked_in_niche")
                                         THEN "gate" ELSE "classify",
                              ![tk].user = <<user>>,
                              ![tk].hasTweets = IF h.tweetsRemote
                                                THEN TweetCounts[u] > 0
                                                ELSE h.hasTweets]
    /\ UNCHANGED <<queue, processing, maxConcurrent, pcProc, nextTk, dcount, thrown,
                   lateAdd>>
    /\ UNCHANGED <<seenUsers, users, relationships, tweets, seedPc, clears, restarts,
                   enqEpoch, expandedEpoch>>
    /\ UNCHANGED limiterVars
    /\ UNCHANGED <<edgeWrites, followingFetches, stats>>

\* isUserInNiche whose catch returns true
isUserInNicheFailOpen(outcome) == IF outcome = "no" THEN 0 ELSE 1

\* NicheDetector.isUserInNiche: the verdict of the classifier, or false from
\* the catch when the call or the parse of its answer fails
isUserInNiche(outcome) == IF outcome = "yes" THEN 1 ELSE 0

\* processUser: nicheDetector.isUserInNiche resolves (a failure of the
\* classifier is caught inside it and returns false); saveUser, saveTweets
CrawlClassified(tk) ==
    /\ tk \in DOMAIN handlers
    /\ pcProc # "loop"
    /\ handlers[tk].pc = "classify"
    /\ LET h == handlers[tk]
           u == h.item.user_id
       IN  \E outcome \in {"yes", "no", "error"}, saveOk \in BOOLEAN :
             LET isInNiche == isUserInNiche(outcome)
                 userData ==
                   Spread(h.user[1],
                          [user_id |-> h.user[1].user_id, last_updated |-> 1,
                           followers_crawled |-> 0, bfs_depth |-> h.item.depth,
                           is_in_niche |-> isInNiche, checked_in_niche |-> 1])
             IN  /\ Fault(outcome = "error" \/ ~saveOk)
                 /\ IF saveOk
                    THEN /\ users' = saveUser(users, userData)
                         /\ tweets' = IF h.hasTweets /\ userExists(users', u)
                                      THEN tweets \cup {u} ELSE tweets
                         /\ handlers' = [handlers EXCEPT ![tk].pc = "gate",
                                                         ![tk].user = <<userData>>,
                                                         ![tk].classifier = outcome,
                                                         ![tk].invoked = TRUE]
                    ELSE \* db.saveUser throws; catch: return null
                         /\ UNCHANGED <<users, tweets>>
                         /\ handlers' = [handlers EXCEPT ![tk].pc = "gate",
                                                         ![tk].user = << >>,
                                                         ![tk].classifier = outcome,
                                                         ![tk].invoked = TRUE]
    /\ UNCHANGED <<queue, processing, maxConcurrent, pcProc, nextTk, dcount, thrown,
                   lateAdd>>
    /\ UNCHANGED <<seenUsers, relationships, seedPc, clears, restarts, enqEpoch,
                   expandedEpoch>>
    /\ UNCHANGED limiterVars
    /\ UNCHANGED <<edgeWrites, followingFetches, stats>>

\* the condition without the call of shouldAddUsersFollowing
ExpandsOnVerdictOnly(h) ==
    /\ h.user # << >>
    /\ Truthy(h.user[1], "is_in_niche")

\* the condition of the if of processUserAndFollowing
Expands(h) ==
    /\ h.user # << >>
    /\ Truthy(h.user[1], "is_in_niche")
    /\ shouldAddUsersFollowing(h.user[1], h.item.depth)

\* processUserAndFollowing after await processUser: either getFollowing is
\* called (it reads the stored edges before it awaits) or the handler ends
CrawlGate(tk) ==
    /\ tk \in DOMAIN handlers
    /\ pcProc # "loop"
    /\ handlers[tk].pc = "gate"
    /\ LET h == handlers[tk]
       IN  IF Expands(h)
           THEN /\ handlers' =
                     [handlers EXCEPT
                        ![tk].pc = "following",
                        ![tk].fromCache =
                            Len(getFollowingIds(relationships, h.user[1].user_id)) > 0]
                /\ UNCHANGED <<processing, maxConcurrent, pcProc, thrown, lateAdd>>
                /\ UNCHANGED stats
           ELSE /\ Finish(tk)
                /\ stats' = recordSuccess(stats)
    /\ UNCHANGED <<queue, nextTk, dcount>>
    /\ UNCHANGED <<seenUsers, users, relationships, tweets, seedPc, clears, restarts,
                   enqEpoch, expandedEpoch, faults, edgeWrites, followingFetches>>
    /\ UNCHANGED limiterVars

\* the list ApiClient.getFollowing rebuilds from the stored edges
CachedFollowing(tbl, rel, u, elapsed) ==
    LET ids == getFollowingIds(rel, u)
    IN  [i \in 1..Len(ids) |->
            IF DetailsCached(tbl, ids[i], elapsed) THEN tbl[ids[i]]
            ELSE ApiUser(ids[i])]

\* the list twitter.getFollowing returns
RemoteFollowing(u) ==
    [i \in 1..Len(FollowingList[u]) |-> ApiUser(FollowingList[u][i])]

\* processUserAndFollowing after await getFollowing: addNewUsers,
\* saveFollowingRelationships, markFollowersCrawled, and the handler ends;
\* a rejected getFollowing or a throwing store write ends it in the catch.
CrawlFollowing(tk) ==
    /\ tk \in DOMAIN handlers
    /\ handlers[tk].pc = "following"
    /\ Finish(tk)
    /\ LET h == handlers[tk]
           u == h.user[1].user_id
       IN  \E ok \in BOOLEAN, elapsed \in 0..MaxHours :
             /\ h.fromCache => ok
             /\ IF ~ok
                THEN /\ Fault(TRUE)
                     /\ stats' = recordFailure(stats)
                     /\ UNCHANGED <<queue, nextTk, dcount, seenUsers, users,
                                    relationships, enqEpoch, expandedEpoch,
                                    edgeWrites, followingFetches>>
                ELSE LET following ==
                           IF h.fromCache
                           THEN CachedFollowing(users, relationships, u, elapsed)
                           ELSE RemoteFollowing(u)
                     IN  \E failAt \in FailPoints(seenUsers, following) :
                           LET r == addNewUsers(seenUsers, users, following,
                                                h.item.depth + 1, failAt)
                               completes ==
                                 ~r.threw /\ RelationshipsAccepted(r.users, u, following)
                           IN  /\ Fault(r.threw)
                               /\ Enqueue(r)
                               /\ followingFetches' =
                                    [followingFetches EXCEPT
                                       ![u] = IF h.fromCache THEN @ ELSE @ + 1]
                               /\ edgeWrites' =
                                    [edgeWrites EXCEPT
                                       ![u] = IF completes THEN @ + 1 ELSE @]
                               /\ expandedEpoch' = expandedEpoch \cup
                                    {[acct |-> u, ok |-> completes,
                                      peers |-> {handlers[t].item.user_id :
                                                   t \in DOMAIN handlers \ {tk}}]}
                               /\ IF completes
                                  THEN /\ relationships' =
                                            saveFollowingRelationships(relationships, u, following)
                                       /\ users' = markFollowersCrawled(r.users, u)
                                       /\ stats' = recordSuccess(stats)
                                  ELSE /\ relationships' = relationships
                                       /\ users' = r.users
                                       /\ stats' = recordFailure(stats)
    /\ UNCHANGED <<tweets, seedPc, clears, restarts>>
    /\ UNCHANGED limiterVars

\* the process is started again over the same store
Restart ==
    /\ pcProc = "returned"
    /\ DOMAIN handlers = {}
    /\ restarts < MaxRestarts
    /\ clears + restarts + faults < MaxDisturbances
    /\ restarts' = restarts + 1
    /\ pcProc' = "idle"
    /\ queue' = << >>
    /\ processing' = {}
    /\ seenUsers' = {}
    /\ seedPc' = [i \in DOMAIN Seeds |-> "todo"]
    /\ enqEpoch' = [a \in Accounts |-> 0]
    /\ expandedEpoch' = {}
    /\ nextTk' = 1
    /\ dcount' = << >>
    /\ UNCHANGED <<maxConcurrent, handlers, thrown, lateAdd>>
    /\ followingFetches' = [a \in Accounts |-> 0]
    /\ stats' = NewStats
    /\ UNCHANGED <<users, relationships, tweets, clears, faults, edgeWrites>>
    /\ UNCHANGED limiterVars

CrawlNext ==
    \/ SeedStart
    \/ \E i \in DOMAIN Seeds : SeedResolved(i)
    \/ StartCrawl
    \/ CrawlDispatch
    \/ LoopPause
    \/ Wake
    \/ \E tk \in DOMAIN handlers : CrawlFetched(tk)
    \/ \E tk \in DOMAIN handlers : CrawlClassified(tk)
    \/ \E tk \in DOMAIN handlers : CrawlGate(tk)
    \/ \E tk \in DOMAIN handlers : CrawlFollowing(tk)
    \/ Restart

SpecCrawl == CrawlInit /\ [][CrawlNext]_vars

\* a continuation of some handler runs
CrawlHandlerStep ==
    \E tk \in DOMAIN handlers :
        CrawlFetched(tk) \/ CrawlClassified(tk) \/ CrawlGate(tk) \/ CrawlFollowing(tk)

\* a continuation of some handler can run: CrawlHandlerStep is enabled
HandlerPending == DOMAIN handlers # {} /\ pcProc # "loop"

\* main awaits addSeedUsers and then start; the scheduler loop runs to its
\* sleep and its timer fires (weak fairness); every remote call and every
\* classification returns or fails, so a continuation of a handler runs:
\* it is enabled each time the scheduler loop sleeps, hence strong fairness,
\* written out with the enabling condition of CrawlHandlerStep.
FairSpecCrawl ==
    /\ SpecCrawl
    /\ WF_vars(SeedStart)
    /\ WF_vars(\E i \in DOMAIN Seeds : SeedResolved(i))
    /\ WF_vars(StartCrawl)
    /\ WF_vars(CrawlDispatch)
    /\ WF_vars(LoopPause)
    /\ WF_vars(Wake)
    /\ ([]<>HandlerPending) => []<><<CrawlHandlerStep>>_vars

----------------------------------------------------------------------------
(* Claims about the crawler *)

\* the handler invocation tk takes a step
StepOf(tk) == tk \notin DOMAIN handlers' \/ handlers'[tk] # handlers[tk]

\* the work items that exist: queued or in flight
WorkItems ==
    {queue[i] : i \in 1..Len(queue)} \cup {handlers[tk].item : tk \in DOMAIN handlers}

\* C5: the crawler enters expansion for a work item if and only if the
\* classification verdict of the account is positive, its follower count is
\* at least the popularity floor and the depth of the item is at most the
\* depth ceiling.
C5_ExpansionGate ==
    [][\A tk \in DOMAIN handlers :
         (handlers[tk].pc = "gate" /\ StepOf(tk))
         => ((tk \in DOMAIN handlers' /\ handlers'[tk].pc = "following")
             <=> (/\ handlers[tk].user # << >>
                  /\ Truthy(handlers[tk].user[1], "is_in_niche")
                  /\ handlers[tk].user[1].follower_count >= minFollowers
                  /\ handlers[tk].item.depth <= maxDepth))]_vars

\* an account whose follower count equals the floor is being expanded
C5_Witness ==
    \E tk \in DOMAIN handlers :
        /\ handlers[tk].pc = "following"
        /\ handlers[tk].user[1].follower_count = minFollowers
        /\ handlers[tk].item.depth = maxDepth

\* C6 as claimed: an account processed at the depth ceiling enqueues no
\* followees, so no work item is ever enqueued at a depth greater than the
\* ceiling.
C6_NoItemBeyondCeiling == \A item \in WorkItems : item.depth <= maxDepth

\* C6 as amended: an account processed at the ceiling may expand, its
\* followees are enqueued at ceiling + 1; an account processed at
\* ceiling + 1 is classified but never expanded, so no work item is ever
\* enqueued at a depth greater than ceiling + 1.
C6_DepthCeilingAmended ==
    /\ \A item \in WorkItems : item.depth <= maxDepth + 1
    /\ \A tk \in DOMAIN handlers :
         handlers[tk].item.depth > maxDepth => handlers[tk].pc # "following"

\* an account at depth ceiling + 1 has been classified
C6_Witness ==
    \E tk \in DOMAIN handlers :
        /\ handlers[tk].item.depth = maxDepth + 1
        /\ handlers[tk].pc = "gate"
        /\ handlers[tk].invoked
        /\ handlers[tk].user # << >>
        /\ Truthy(handlers[tk].user[1], "is_in_niche")
        /\ handlers[tk].user[1].follower_count >= minFollowers

\* C7: processing a work item for an account the store already marks
\* classified does not invoke the classifier and leaves the stored
\* classified flag and verdict of the account unchanged, also after a
\* restart.
C7_NoReclassification ==
    /\ [](\A tk \in DOMAIN handlers :
            handlers[tk].wasClassified
            => (~handlers[tk].invoked /\ handlers[tk].pc # "classify"))
    /\ [][\A tk \in DOMAIN handlers :
            (handlers[tk].wasClassified /\ StepOf(tk))
            => LET u == handlers[tk].item.user_id
               IN  /\ userExists(users, u) => userExists(users', u)
                   /\ userExists(users, u) =>
                        /\ users'[u].checked_in_niche = users[u].checked_in_niche
                        /\ users'[u].is_in_niche = users[u].is_in_niche]_vars

\* after a restart a handler has gone through processUser for an account
\* that was already classified
C7_Witness ==
    \E tk \in DOMAIN handlers :
        /\ restarts > 0
        /\ handlers[tk].wasClassified
        /\ handlers[tk].pc = "following"

\* a classification run of account u completes
ClassificationRun(u) ==
    \E tk \in DOMAIN handlers :
        /\ handlers[tk].pc = "classify"
        /\ handlers[tk].item.user_id = u
        /\ tk \in DOMAIN handlers'
        /\ handlers'[tk].pc = "gate"

\* C8: once an account is stored with classified = true, no operation other
\* than a classification run changes its classified flag or its verdict.
C8_ClassifiedIsStable ==
    [][\A u \in DOMAIN users :
         Truthy(users[u], "checked_in_niche")
         => \/ ClassificationRun(u)
            \/ /\ userExists(users', u)
               /\ users'[u].checked_in_niche = users[u].checked_in_niche
               /\ users'[u].is_in_niche = users[u].is_in_niche]_vars

\* C9: while an account is being expanded the store holds it with
\* classified = true and a positive verdict; an account with
\* classified = false is never expanded.
C9_ExpansionOnlyWhenClassified ==
    \A tk \in DOMAIN handlers :
        handlers[tk].pc = "following"
        => LET u == handlers[tk].user[1].user_id
           IN  /\ userExists(users, u)
               /\ Truthy(users[u], "checked_in_niche")
               /\ Truthy(users[u], "is_in_niche")

\* the followees two accounts have in common
CommonFollowees(a, b) ==
    {FollowingList[a][i] : i \in 1..Len(FollowingList[a])}
        \cap {FollowingList[b][i] : i \in 1..Len(FollowingList[b])}

\* C10: when the same followee is in the following lists of two accounts
\* whose handlers run concurrently and are expanded between two Visited Set
\* clears, the followee is enqueued exactly once in that epoch, an edge is
\* recorded for each discoverer whose expansion completed, and the store
\* holds the account record of the followee.
C10_SharedFolloweeEnqueuedOnce ==
    \A x \in expandedEpoch, y \in expandedEpoch :
        (x.acct # y.acct /\ y.acct \in x.peers) =>
          \A v \in CommonFollowees(x.acct, y.acct) :
              /\ enqEpoch[v] = 1
              /\ x.ok => <<x.acct, v>> \in relationships
              /\ y.ok => <<y.acct, v>> \in relationships
              /\ userExists(users, v)

\* C13: when the classifier returns negative for an account, or fails,
\* the account is persisted (the store write succeeding) with classified =
\* true and is_in_niche = false, and no expansion occurs for it whatever
\* its follower count and depth.
C13_NegativeFailsClosed ==
    [][\A tk \in DOMAIN handlers :
         /\ (/\ handlers[tk].pc = "classify"
             /\ StepOf(tk)
             /\ handlers'[tk].classifier \in {"no", "error"}
             /\ handlers'[tk].user # << >>)
            => LET u == handlers[tk].item.user_id
               IN  /\ userExists(users', u)
                   /\ users'[u].checked_in_niche = 1
                   /\ users'[u].is_in_niche = 0
         /\ (/\ handlers[tk].pc = "gate"
             /\ handlers[tk].classifier \in {"no", "error"}
             /\ StepOf(tk))
            => tk \notin DOMAIN handlers']_vars

\* the classifier has failed for an account that is popular and within the
\* depth ceiling
C13_Witness ==
    \E tk \in DOMAIN handlers :
        /\ handlers[tk].pc = "gate"
        /\ handlers[tk].classifier = "error"
        /\ handlers[tk].user # << >>
        /\ shouldAddUsersFollowing(handlers[tk].user[1], handlers[tk].item.depth)

\* the work items a step places in the pending queue
Enqueued == {queue'[i] : i \in {j \in 1..Len(queue') : queue'[j].tk >= nextTk}}

\* C14: during expansion a followee is marked visited, persisted and
\* enqueued only if it is not already in the Visited Set and is not already
\* marked followers_crawled in the store: an account whose flag is true in
\* the store is never enqueued by an expansion.
C14_ExpandedNeverEnqueued ==
    [][(\E tk \in DOMAIN handlers : handlers[tk].pc = "following" /\ StepOf(tk))
       => \A item \in Enqueued :
            /\ item.user_id \notin seenUsers
            /\ ~(/\ userExists(users, item.user_id)
                 /\ Truthy(users[item.user_id], "followers_crawled"))]_vars

\* C15: after a Visited Set clear, processing again an account that was
\* already fetched, classified and expanded causes no remote call for its
\* details, its tweets or its following list; the following list of each
\* account is fetched remotely at most once during a crawl.
C15_NoRedundantFetch ==
    /\ [][\A tk \in DOMAIN handlers' :
            LET u == handlers'[tk].item.user_id
                known == /\ userExists(users, u)
                         /\ Truthy(users[u], "checked_in_niche")
                         /\ Truthy(users[u], "followers_crawled")
            IN  /\ (tk \notin DOMAIN handlers /\ known)
                   => (~handlers'[tk].detailsRemote /\ ~handlers'[tk].tweetsRemote)
                /\ (/\ tk \in DOMAIN handlers
                    /\ handlers[tk].pc = "gate"
                    /\ handlers'[tk].pc = "following"
                    /\ known)
                   => handlers'[tk].fromCache]_vars
    /\ [](\A a \in Accounts : followingFetches[a] <= 1)

\* C16: processing an account whose followers_crawled flag is already true
\* in the store writes no follow-edges: the edge batch of an account is
\* written at most once.
C16_EdgesWrittenOnce ==
    /\ [][\A tk \in DOMAIN handlers :
            (/\ handlers[tk].pc = "following"
             /\ StepOf(tk)
             /\ userExists(users, handlers[tk].item.user_id)
             /\ Truthy(users[handlers[tk].item.user_id], "followers_crawled"))
            => edgeWrites' = edgeWrites]_vars
    /\ [](\A a \in Accounts : edgeWrites[a] <= 1)

\* C17: on a finite following graph, with every remote call and every
\* classification eventually returning or failing, the crawl terminates:
\* the frontier becomes empty and WorkerPool.process returns, also when the
\* Visited Set is cleared during the crawl and the graph has cycles.
C17_CrawlTerminates ==
    (pcProc \in {"loop", "sleep"})
        ~> (pcProc = "returned" /\ queue = << >> /\ DOMAIN handlers = {})

\* the crawl has returned after a clear and after the expansion of both
\* accounts of the cycle 1 -> 3 -> 1
C17_Witness ==
    /\ pcProc = "returned"
    /\ clears > 0
    /\ edgeWrites[1] > 0
    /\ edgeWrites[3] > 0

\* C18: handlers are started in FIFO order of enqueueing: if item x was
\* placed in the pending queue before item y, the handler of x is dispatched
\* no later than the handler of y; the order of completion is free.
C18_FifoDispatch ==
    \A x \in Tickets, y \in Tickets :
        (x < y /\ dcount[y] > 0) => dcount[x] > 0

\* the item enqueued second has completed while the first is still running
C18_Witness ==
    /\ 1 \in DOMAIN handlers
    /\ 2 \in Tickets
    /\ dcount[2] > 0
    /\ 2 \notin DOMAIN handlers

\* C21: getUserDetails called with an ID whose stored record is not stale
\* returns the stored record and makes no remote call; with the infinite
\* refresh threshold no stored account is stale whatever its age, so an
\* account present in the store is never fetched remotely by ID, neither by
\* processUser nor by addSeedUsers.
C21_StoredNeverRefetched ==
    /\ [](\A u \in DOMAIN users, elapsed \in 0..MaxHours :
            ~isUserStale(users, u, refreshHours, elapsed))
    /\ [][\A tk \in DOMAIN handlers' \ DOMAIN handlers :
            LET u == handlers'[tk].item.user_id
            IN  userExists(users, u)
                => /\ ~handlers'[tk].detailsRemote
                   /\ handlers'[tk].user = <<users[u]>>]_vars
    /\ [][\A i \in DOMAIN Seeds :
            (seedPc[i] = "todo" /\ seedPc'[i] # "todo" /\ userExists(users, Seeds[i]))
            => seedPc'[i] = "cached"]_vars

\* after a restart the details of a seed that is in the store are taken
\* from the store
C21_Witness ==
    /\ restarts > 0
    /\ \E i \in DOMAIN Seeds :
         seedPc[i] = "cached" /\ userExists(users, Seeds[i])

\* the pending work items of account a
QueuedFor(a) == {j \in 1..Len(queue) : queue[j].user_id = a}

\* C22: when addSeedUsers is over, every seed that resolved is in the
\* Visited Set, in the store, and in the pending queue exactly once, at
\* depth 0, also when it is listed twice, and whether or not the resolution
\* of another seed failed.
C22_SeedsEnqueuedOnce ==
    \A i \in DOMAIN Seeds :
        (pcProc = "idle" /\ seedPc[i] = "done")
        => /\ Seeds[i] \in seenUsers
           /\ userExists(users, Seeds[i])
           /\ Cardinality(QueuedFor(Seeds[i])) = 1
           /\ \A j \in QueuedFor(Seeds[i]) : queue[j].depth = 0

\* the handler invocation tk ends in this step after a failure: processUser
\* returned null (the fetch or the store write failed), the classifier
\* failed, or the expansion did not complete
EndsFailed(tk) ==
    /\ tk \in DOMAIN handlers
    /\ tk \notin DOMAIN handlers'
    /\ \/ /\ handlers[tk].pc = "gate"
          /\ handlers[tk].user = << >> \/ handlers[tk].classifier = "error"
       \/ /\ handlers[tk].pc = "following"
          /\ edgeWrites' = edgeWrites

\* C23: a work item whose processing fails at any step is recorded as
\* exactly one failure and not as a success, is not enqueued again, and
\* leaves the pending queue and the other handlers as they are.
C23_FailureRecordedOnce ==
    [][\A tk \in DOMAIN handlers :
         EndsFailed(tk)
         => /\ stats'.failedRequests = stats.failedRequests + 1
            /\ stats'.successfulRequests = stats.successfulRequests
            /\ \A item \in Enqueued : item.user_id # handlers[tk].item.user_id
            /\ \A i \in 1..Len(queue) : queue'[i] = queue[i]
            /\ \A t \in DOMAIN handlers \ {tk} :
                 t \in DOMAIN handlers' /\ handlers'[t] = handlers[t]]_vars

\* the followers_crawled flag of account u is true in the store
FollowersCrawled(tbl, u) == userExists(tbl, u) /\ Truthy(tbl[u], "followers_crawled")

\* C24: within one expansion the followees are marked visited and persisted,
\* then the batch of edges is persisted, then the source account is marked
\* followers_crawled: the flag is true only for an account whose edge batch
\* is in the store, it is set only by a step that wrote the batch after the
\* followees were marked and stored, and an expansion that fails before the
\* edge write does not set it.
C24_FlagAfterEdges ==
    /\ [](\A u \in Accounts :
            FollowersCrawled(users, u)
            => \A i \in 1..Len(FollowingList[u]) :
                  <<u, FollowingList[u][i]>> \in relationships)
    /\ [][\A u \in Accounts :
            (FollowersCrawled(users', u) /\ ~FollowersCrawled(users, u))
            => /\ edgeWrites'[u] = edgeWrites[u] + 1
               /\ \A i \in 1..Len(FollowingList[u]) :
                     /\ FollowingList[u][i] \in seenUsers'
                     /\ userExists(users', FollowingList[u][i])]_vars
    /\ [][\A tk \in DOMAIN handlers :
            (/\ handlers[tk].pc = "following"
             /\ StepOf(tk)
             /\ edgeWrites' = edgeWrites)
            => LET u == handlers[tk].item.user_id
               IN  FollowersCrawled(users', u) => FollowersCrawled(users, u)]_vars

\* one expansion has completed for an account that follows somebody and
\* another one has failed before its edge write
C24_Witness ==
    /\ \E u \in Accounts :
         FollowersCrawled(users, u) /\ Len(FollowingList[u]) > 0
    /\ \E x \in expandedEpoch :
         ~x.ok /\ ~FollowersCrawled(users, x.acct)

\* C25: the size of the in-flight set equals the number of handler
\* invocations started and not finished, also when the same item value or
\* object is enqueued more than once, and no item is in the pending queue
\* and in the in-flight set at the same time.
C25_InFlightSetExact ==
    /\ Cardinality(processing) = Running
    /\ \A i \in 1..Len(queue) : queue[i].id \notin processing

\* C26: the followers_crawled flag of an account is monotonic in the store:
\* once it is true no later step of the crawl (re-discovery as a followee,
\* re-processing, Visited Set clear or restart) writes it back to false.
C26_FlagMonotonic ==
    [][\A u \in Accounts :
         FollowersCrawled(users, u) => FollowersCrawled(users', u)]_vars

\* C27: marking visited and enqueueing are one atomic step of addNewUsers:
\* every account in the Visited Set has been handed to the Worker Pool since
\* the Visited Set was last emptied (it is queued, in flight or finished),
\* also when a store write fails part-way through the batch.
C27_VisitedImpliesEnqueued ==
    \A a \in seenUsers : enqEpoch[a] > 0

\* the accounts reachable from the seeds in at most n following hops
RECURSIVE Within(_)
Within(n) ==
    IF n = 0 THEN {Seeds[i] : i \in DOMAIN Seeds}
    ELSE Within(n - 1) \cup
         UNION {{FollowingList[a][i] : i \in 1..Len(FollowingList[a])} :
                  a \in Within(n - 1)}

\* the minimum number of following hops from a seed to account a
Hops(a) == CHOOSE n \in 0..Cardinality(Accounts) :
               a \in Within(n) /\ \A m \in 0..(n - 1) : a \notin Within(m)

\* C28: the depth carried by every work item, and the bfs_depth stored for
\* an account, equals the minimum number of following hops from a seed to
\* the account, whatever the order in which the handlers complete.
C28_DepthIsShortestPath ==
    /\ \A item \in WorkItems : item.depth = Hops(item.user_id)
    /\ \A u \in DOMAIN users : users[u].bfs_depth = Hops(u)

====
